---------------------------- MODULE Spec2Model ----------------------------
(***************************************************************************)
(* Model of src/LinesLengthJNDThreshold.py: an adaptive 2AFC test of the   *)
(* just noticeable difference between the lengths of two lines.            *)
(*                                                                         *)
(* The program is a Tk application.  After the module-level setup (lines   *)
(* 286-334) it sits in root.mainloop() and reacts to three user events:    *)
(* a click on radiobutton A, a click on radiobutton B, and a click on the  *)
(* Next button, which runs NextCallback.  With a choice selected,          *)
(* NextCallback calls HideLines, whose root.update() (line 127) handles    *)
(* the events that are pending at that moment before it returns: clicks    *)
(* that reached the window while the event loop was busy are handled       *)
(* there, inside the running callback, a further click on Next included.   *)
(* NextCallback is therefore two steps: up to root.update(), and from its  *)
(* return to the end; depth counts the activations that wait in            *)
(* root.update().  The callback has no local state, so the count is all    *)
(* there is to the call stack.  Random draws (random.choice,               *)
(* np.random.choice) and the result of the imported MLE_search are         *)
(* nondeterministic choices.                                               *)
(*                                                                         *)
(* Scaling.  MaxTrials is 30 and StimLevels is np.arange(0,15,1) in the    *)
(* source; the model keeps the same shape (StimLevels = 0 .. NumLevels-1,  *)
(* MinTrials = 0.30*MaxTrials) with smaller MaxTrials and NumLevels.       *)
(* NumCorrect holds multiples of 0.5 in the source; the model stores twice *)
(* the value (Full = +1, Half = +0.5).  The fitted alpha is a float; the   *)
(* model works with twice its value and draws alpha from the half-integers *)
(* from one below the lowest level to one above the highest.               *)
(*                                                                         *)
(* StimLevels is a module global the program never assigns again; it is a  *)
(* variable here so that the setup can be run with another array at line   *)
(* 73 (ConfigSpec).  LiveSpec adds to Spec the fairness under which the    *)
(* session is expected to end.                                             *)
(***************************************************************************)
EXTENDS Integers, Sequences, FiniteSets

\* ---- bounds of the model ----
MaxTrials == 4          \* line 71 (30 in the source)
NumLevels == 4          \* len(StimLevels), line 73 (15 in the source)
MaxEmptyPresses == 1    \* Next presses modelled beyond MaxTrials

\* ---- program constants ----
size_base == 150        \* line 307

\* 10 * MinTrials, MinTrials = 0.30*MaxTrials (line 72), kept exact
MinTrials10 == 3 * MaxTrials

\* np.arange(start, stop, 1), indexed from 0 (line 73)
np_arange(start, stop) == [i \in 0 .. stop - start - 1 |-> start + i]

\* units of NumCorrect: the model stores 2 * NumCorrect
Full == 2
Half == 1

Widgets == {"canvasA", "canvasB", "selectA", "selectB", "btn_next"}

VARIABLES
    StimLevels,     \* the array of stimulus levels (line 73)
    counter,        \* root.counter
    Option,         \* the Tk StringVar behind the two radiobuttons
    choice,         \* list of recorded responses
    lineA_length,   \* list of presented lengths of line A
    lineB_length,   \* list of presented lengths of line B
    NumCorrect,     \* per level, twice the credited-correct count
    Total,          \* per level, number of scored presentations
    shown,          \* the widgets currently managed by grid
    depth,          \* activations of NextCallback waiting in root.update()
    sel,            \* how the latest pair was selected (observer)
    plots           \* number of calls of PlotResults (observer)

vars == <<StimLevels, counter, Option, choice, lineA_length, lineB_length,
          NumCorrect, Total, shown, depth, sel, plots>>

LevelIndices == DOMAIN StimLevels

Abs(x) == IF x < 0 THEN -x ELSE x

Last(s) == s[Len(s)]

RECURSIVE SumUpTo(_, _)
SumUpTo(f, n) == IF n < 0 THEN 0 ELSE f[n] + SumUpTo(f, n - 1)

\* sum(f) of a per-level vector
Sum(f) == SumUpTo(f, NumLevels - 1)

\* Variant: the increment always goes to line A
NewLinesLengths_alwaysA(base, add) == { <<base + add, base>> }

\* NewLinesLengths(size_base, size_add): the pairs it can return
NewLinesLengths(base, add) == { <<base + add, base>>, <<base, base + add>> }

\* MLE_search(Gamma, Lambda, typef, StimLevels, NumCorrect, Total), imported
\* from MaxLikelihoodEstimation.py: any outcome [success, x0] with x0 twice
\* the fitted alpha.  results.x[1] (beta) is only printed and plotted.
Alphas2 == (2 * StimLevels[0] - 2) .. (2 * StimLevels[NumLevels - 1] + 2)

MLE_search(nc, tot) == [success : BOOLEAN, x0 : Alphas2]

\* Lines 152-153: diff = abs(StimLevels - alpha); np.argmin gives the first
\* index at which diff is minimal.
Diff2(i, alpha2) == Abs(2 * StimLevels[i] - alpha2)

\* Variant: np.argmin replaced by the last index at which diff is minimal
Nearest_lastMin(alpha2) ==
    CHOOSE i \in LevelIndices :
        \A j \in LevelIndices :
            /\ Diff2(i, alpha2) <= Diff2(j, alpha2)
            /\ (Diff2(j, alpha2) = Diff2(i, alpha2) => i >= j)

Nearest(alpha2) ==
    CHOOSE i \in LevelIndices :
        \A j \in LevelIndices :
            /\ Diff2(i, alpha2) <= Diff2(j, alpha2)
            /\ (Diff2(j, alpha2) = Diff2(i, alpha2) => i <= j)

\* Line 154: np.arange(StimIndex[0]-2, StimIndex[0]+3, 1)
JitterWindow(n) == (n - 2) .. (n + 2)

\* Variant: a negative index wraps round, as a Python index would
Clamp_wrap(i) ==
    IF i < 0 THEN i + NumLevels
    ELSE IF i > NumLevels - 1 THEN NumLevels - 1 ELSE i

\* Lines 155-158
Clamp(i) ==
    IF i < 0 THEN 0
    ELSE IF i > NumLevels - 1 THEN NumLevels - 1 ELSE i

\* Variant: the failed search's alpha is used all the same
Fallback_stale(r) ==
    { [StimIndex |-> Nearest(r.x0), draw |-> Nearest(r.x0),
       phase |-> "fit_fail", alpha2 |-> {}] }

\* Lines 160-162: the search did not succeed
Fallback(r) ==
    { [StimIndex |-> i, draw |-> i, phase |-> "fit_fail", alpha2 |-> {}] :
        i \in LevelIndices }

\* Variant: the level of the pair on display is not drawn again
Adaptive_noRepeat(r) ==
    { g \in { [StimIndex |-> Clamp(d), draw |-> d, phase |-> "fit_ok",
               alpha2 |-> {r.x0}] : d \in JitterWindow(Nearest(r.x0)) } :
        g.StimIndex # sel.StimIndex }

\* Lines 146-158: the search succeeded; draw is the index drawn at line 154
Adaptive(r) ==
    { [StimIndex |-> Clamp(d), draw |-> d, phase |-> "fit_ok",
       alpha2 |-> {r.x0}] :
        d \in JitterWindow(Nearest(r.x0)) }

\* Lines 134-136: the first trials
Warmup ==
    { [StimIndex |-> i, draw |-> i, phase |-> "warmup", alpha2 |-> {}] :
        i \in LevelIndices }

\* Variant: the counter is compared with MaxTrials, not with MinTrials
StimIndexChoices_allWarmup(cnt, nc, tot) ==
    IF cnt * 10 < 10 * MaxTrials
    THEN Warmup
    ELSE UNION { IF r.success THEN Adaptive(r) ELSE Fallback(r) :
                    r \in MLE_search(nc, tot) }

\* Lines 131-162: every StimIndex GetNextLengths can arrive at, with the
\* index drawn, the branch taken and, in alpha2, the alpha used (as a set:
\* empty when none is).
StimIndexChoices(cnt, nc, tot) ==
    IF cnt * 10 < MinTrials10
    THEN Warmup
    ELSE UNION { IF r.success THEN Adaptive(r) ELSE Fallback(r) :
                    r \in MLE_search(nc, tot) }

\* What sel keeps of a selection
Observed(g) == [StimIndex |-> g.StimIndex, draw |-> g.draw, phase |-> g.phase]

\* Variant: only lineA_length is appended to
PresentNextLines_lineAOnly(cnt, nc, tot) ==
    \E g \in StimIndexChoices(cnt, nc, tot) :
        \E p \in NewLinesLengths(size_base, StimLevels[g.StimIndex]) :
            /\ lineA_length' = Append(lineA_length, p[1])
            /\ lineB_length' = lineB_length
            /\ sel' = Observed(g)
            /\ Option' = ""

\* Lines 170-185, with GetNextLengths' lines 164-167
PresentNextLines(cnt, nc, tot) ==
    \E g \in StimIndexChoices(cnt, nc, tot) :
        \E p \in NewLinesLengths(size_base, StimLevels[g.StimIndex]) :
            /\ lineA_length' = Append(lineA_length, p[1])
            /\ lineB_length' = Append(lineB_length, p[2])
            /\ sel' = Observed(g)
            /\ Option' = ""

\* Variant: the difference is taken without abs
stimulus_index_signed(a, b) == { i \in LevelIndices : StimLevels[i] = a - b }

\* Lines 191-192: np.where(StimLevels == stimulus_value)
stimulus_index(a, b) == { i \in LevelIndices : StimLevels[i] = Abs(a - b) }

\* Lines 199-204
Correct(a, b) == IF a > b THEN "A" ELSE IF b > a THEN "B" ELSE "Equal"

\* Variant: Total is incremented one level below the presented one
ScoredTotal_shifted(tot, a, b) ==
    [i \in LevelIndices |->
        IF (i + 1) \in stimulus_index(a, b) THEN tot[i] + 1 ELSE tot[i]]

\* Line 195
ScoredTotal(tot, a, b) ==
    [i \in LevelIndices |->
        IF i \in stimulus_index(a, b) THEN tot[i] + 1 ELSE tot[i]]

\* Variant: a tie earns full credit
Credit_tieFull(a, b, ch) ==
    IF Correct(a, b) = ch THEN Full
    ELSE IF Correct(a, b) = "Equal" THEN Full ELSE 0

\* Variant: the shorter line counts as the correct answer
Credit_swapped(a, b, ch) ==
    IF Correct(b, a) = ch THEN Full
    ELSE IF Correct(a, b) = "Equal" THEN Half ELSE 0

\* Lines 207-210: the credit for response ch, in halves
Credit(a, b, ch) ==
    IF Correct(a, b) = ch THEN Full
    ELSE IF Correct(a, b) = "Equal" THEN Half ELSE 0

\* Lines 206-210
ScoredNumCorrect(nc, a, b, ch) ==
    [i \in LevelIndices |->
        IF i \in stimulus_index(a, b) THEN nc[i] + Credit(a, b, ch) ELSE nc[i]]

\* Variant: only the Next button is removed
HideWidgets_buttonOnly == shown' = shown \ {"btn_next"}

\* Lines 213-218
HideWidgets == shown' = {}

\* Lines 221-234: one more search and the plot
PlotResults(nc, tot) ==
    \E r \in MLE_search(nc, tot) : plots' = plots + 1

\* Line 268
TrialsRemain(cnt) == cnt < MaxTrials

\* Lines 120-127: HideLines up to root.update(), where the activation waits
\* while pending events are handled
HideLines == depth' = depth + 1

\* The presses the model follows: root.counter has no upper limit in the
\* source.  Empty presses and presses handled inside root.update() stop at
\* the bound; a press with a choice made is followed from the idle event
\* loop at any count (it is the last one when the count is past MaxTrials).
PressModelled(opt) ==
    \/ counter < MaxTrials + MaxEmptyPresses
    \/ opt # "" /\ depth = 0

\* Lines 238-252, up to root.update() in HideLines.  The callback runs from
\* the gridded Next button.
NextCallback ==
    /\ "btn_next" \in shown
    /\ PressModelled(Option)
    /\ counter' = counter + 1
    /\ \/ /\ Option = ""
          /\ UNCHANGED depth
       \/ /\ Option # ""
          /\ HideLines
    /\ UNCHANGED <<StimLevels, Option, choice, lineA_length, lineB_length,
                   NumCorrect, Total, shown, sel, plots>>

\* Lines 128, 255-283: root.update() has returned to the innermost waiting
\* activation, which runs to its end
NextCallbackResume ==
    /\ depth > 0
    /\ depth' = depth - 1
    /\ choice' = Append(choice, Option)
    /\ LET a == Last(lineA_length)
           b == Last(lineB_length)
           tot == ScoredTotal(Total, a, b)
           nc == ScoredNumCorrect(NumCorrect, a, b, Option)
       IN /\ Total' = tot
          /\ NumCorrect' = nc
          /\ \/ /\ TrialsRemain(counter)
                /\ PresentNextLines(counter, nc, tot)
                /\ UNCHANGED <<shown, plots>>
             \/ /\ ~TrialsRemain(counter)
                /\ HideWidgets
                /\ PlotResults(nc, tot)
                /\ UNCHANGED <<Option, lineA_length, lineB_length, sel>>
    /\ UNCHANGED <<StimLevels, counter>>

\* Lines 312-317: a click on a gridded radiobutton sets Option to its value
Select(v) ==
    /\ (IF v = "A" THEN "selectA" ELSE "selectB") \in shown
    /\ Option' = v
    /\ UNCHANGED <<StimLevels, counter, choice, lineA_length, lineB_length,
                   NumCorrect, Total, shown, depth, sel, plots>>

SelectA == Select("A")

SelectB == Select("B")

\* Lines 286-330: the state when root.mainloop() starts, StimLevels given
Setup ==
    /\ counter = 0
    /\ Option = ""
    /\ choice = <<>>
    /\ NumCorrect = [i \in LevelIndices |-> 0]
    /\ Total = [i \in LevelIndices |-> 0]
    /\ shown = Widgets
    /\ depth = 0
    /\ plots = 0
    /\ \E i \in LevelIndices :
        \E p \in NewLinesLengths(size_base, StimLevels[i]) :
            /\ lineA_length = <<p[1]>>
            /\ lineB_length = <<p[2]>>
            /\ sel = [StimIndex |-> i, draw |-> i, phase |-> "init"]

\* Lines 73, 286-330
Init ==
    /\ StimLevels = np_arange(0, NumLevels)
    /\ Setup

\* The same setup with line 73 reading np.arange(-2, NumLevels-2, 1): the
\* level -2 has an absolute value that is not a level
ConfigInit ==
    /\ StimLevels = np_arange(-2, NumLevels - 2)
    /\ Setup

Next == SelectA \/ SelectB \/ NextCallback \/ NextCallbackResume

Spec == Init /\ [][Next]_vars

ConfigSpec == ConfigInit /\ [][Next]_vars

\* The participant marks a choice for the pair on display
Respond == Option = "" /\ (SelectA \/ SelectB)

\* The participant presses Next with a choice marked
ValidPress == NextCallback /\ Option # ""

\* Init with the draws of InitialiseLines fixed: the highest level, on
\* line A
LiveInit ==
    /\ Init
    /\ sel.StimIndex = NumLevels - 1
    /\ Last(lineA_length) > Last(lineB_length)

\* The program from LiveInit with a participant who answers every pair on
\* display (marks a choice and presses Next) and a callback that runs to its
\* end: root.update(), time.sleep(0.2) and MLE_search all return.
LiveSpec ==
    /\ LiveInit
    /\ [][Next]_vars
    /\ WF_vars(Respond)
    /\ WF_vars(ValidPress)
    /\ WF_vars(NextCallbackResume)

\* ------------------------------------------------------------------------
\* Properties
\* ------------------------------------------------------------------------

\* The session is in Finished: the stimulus canvases have been hidden
Finished == "canvasA" \notin shown

\* A step that scores a response (appends to choice)
ScoringStep == Len(choice') = Len(choice) + 1

\* A step that selects and presents a new pair
SelectionStep == Len(lineA_length') = Len(lineA_length) + 1

\* A step in which NextCallback is invoked
InvocationStep == counter' # counter

\* The activation that resumes next will select and present a pair
SelectionReady == depth > 0 /\ TrialsRemain(counter)

\* C1: an invocation of NextCallback while Option is empty leaves
\* root.counter, Total, NumCorrect, choice, lineA_length and lineB_length
\* unchanged.
C1_EmptyPressKeepsState ==
    [][(InvocationStep /\ Option = "") =>
          UNCHANGED <<counter, Total, NumCorrect, choice,
                      lineA_length, lineB_length>>]_vars

\* C2: whenever no activation of NextCallback is under way, the sum of Total
\* over all levels equals the trial counter, after any sequence of valid and
\* empty presses.
C2_SumTotalIsCounter == depth = 0 => Sum(Total) = counter

\* C3: the session is in Finished exactly when the trial counter has reached
\* MaxTrials: never finished with the counter below or above MaxTrials, and,
\* with no activation under way, never unfinished with the counter at
\* MaxTrials or beyond.
C3_FinishedExactlyAtMaxTrials ==
    /\ Finished => counter = MaxTrials
    /\ (depth = 0 /\ counter >= MaxTrials) => Finished

\* C4: for every level i, 0 <= NumCorrect[i] <= Total[i] (NumCorrect is
\* stored in halves, so the bound reads Full * Total[i]).
C4_NumCorrectWithinTotal ==
    \A i \in LevelIndices :
        /\ 0 <= NumCorrect[i]
        /\ NumCorrect[i] <= Full * Total[i]

\* a level scored twice or more, with credit strictly between 0 and Total
C4_Witness ==
    \E i \in LevelIndices :
        /\ Total[i] >= 2
        /\ 0 < NumCorrect[i]
        /\ NumCorrect[i] < Full * Total[i]

\* C5: wherever an adaptive selection is about to run, for every successful
\* search and every alpha it estimates, each index GetNextLengths can use is
\* in 0 .. L-1 and within 2 of the level nearest to alpha; and after such a
\* selection the index used is the drawn index clamped into 0 .. L-1, and
\* the pair presented is the one of that level.
C5_JitterWithinTwoAndInRange ==
    /\ SelectionReady =>
          \A g \in StimIndexChoices(counter, NumCorrect, Total) :
              g.phase = "fit_ok" =>
                  /\ g.StimIndex \in LevelIndices
                  /\ \A a2 \in g.alpha2 :
                        Abs(g.StimIndex - Nearest(a2)) <= 2
    /\ sel.phase = "fit_ok" =>
          /\ sel.StimIndex \in LevelIndices
          /\ sel.draw < 0 => sel.StimIndex = 0
          /\ sel.draw > NumLevels - 1 => sel.StimIndex = NumLevels - 1
          /\ sel.draw \in LevelIndices => sel.StimIndex = sel.draw
          /\ Abs(Last(lineA_length) - Last(lineB_length))
                = StimLevels[sel.StimIndex]

\* a successful search whose draw fell below index 0 and was clamped
C5_Witness ==
    /\ sel.phase = "fit_ok"
    /\ sel.draw < 0
    /\ sel.StimIndex = 0

\* C6: scoring a pair of unequal lengths with response A or B, at the level
\* i of |A - B|: Total[i] goes up by 1; NumCorrect[i] goes up by 1 if the
\* response names the longer line and stays if it names the shorter; every
\* other level is unchanged.
C6_UnequalPairScoring ==
    [][(/\ ScoringStep
        /\ Last(choice') \in {"A", "B"}
        /\ Last(lineA_length) # Last(lineB_length)) =>
          LET a == Last(lineA_length)
              b == Last(lineB_length)
              longer == IF a > b THEN "A" ELSE "B"
              gain == IF Last(choice') = longer THEN Full ELSE 0
          IN /\ \E i \in LevelIndices : StimLevels[i] = Abs(a - b)
             /\ \A i \in LevelIndices :
                  IF StimLevels[i] = Abs(a - b)
                  THEN /\ Total'[i] = Total[i] + 1
                       /\ NumCorrect'[i] = NumCorrect[i] + gain
                  ELSE /\ Total'[i] = Total[i]
                       /\ NumCorrect'[i] = NumCorrect[i]]_vars

\* a level of unequal lengths scored twice, once right and once wrong
C6_Witness ==
    \E i \in LevelIndices :
        /\ StimLevels[i] # 0
        /\ Total[i] = 2
        /\ NumCorrect[i] = Full

\* C7: scoring a pair of equal lengths with response A or B: Total at the
\* level of increment 0 goes up by 1 and NumCorrect there by 0.5; every
\* other level is unchanged.
C7_EqualPairScoring ==
    [][(/\ ScoringStep
        /\ Last(choice') \in {"A", "B"}
        /\ Last(lineA_length) = Last(lineB_length)) =>
          /\ \E i \in LevelIndices : StimLevels[i] = 0
          /\ \A i \in LevelIndices :
               IF StimLevels[i] = 0
               THEN /\ Total'[i] = Total[i] + 1
                    /\ NumCorrect'[i] = NumCorrect[i] + Half
               ELSE /\ Total'[i] = Total[i]
                    /\ NumCorrect'[i] = NumCorrect[i]]_vars

\* the level of increment 0 scored once with each response
C7_Witness ==
    /\ Total[0] = 2
    /\ NumCorrect[0] = 2 * Half
    /\ \E m, n \in 1 .. Len(choice) :
        /\ lineA_length[m] = lineB_length[m] /\ choice[m] = "A"
        /\ lineA_length[n] = lineB_length[n] /\ choice[n] = "B"

\* the rest of NextCallback with a failed search and a draw of index i
FitFailSelect(i) ==
    NextCallbackResume /\ sel'.phase = "fit_fail" /\ sel'.StimIndex = i

\* The activation that resumes next will select past the first trials
AdaptiveReady == SelectionReady /\ counter * 10 >= MinTrials10

\* C8: when the search of an adaptive selection fails, every index of
\* 0 .. L-1 is a possible draw, whatever alpha the failed search carries;
\* the pair of the drawn level is presented and the session goes on
\* (widgets shown, no plot made by this step); and the selection that
\* follows calls the search again.
C8_FitFailureFallsBackToRandom ==
    /\ [](AdaptiveReady => \A i \in LevelIndices : ENABLED FitFailSelect(i))
    /\ [](AdaptiveReady =>
            \A r \in MLE_search(NumCorrect, Total) :
                ~r.success =>
                    { g.StimIndex : g \in Fallback(r) } = LevelIndices)
    /\ [][(SelectionStep /\ sel'.phase = "fit_fail") =>
             /\ sel'.StimIndex \in LevelIndices
             /\ Abs(Last(lineA_length') - Last(lineB_length'))
                   = StimLevels[sel'.StimIndex]
             /\ shown' = Widgets
             /\ plots' = plots]_vars
    /\ [][(sel.phase = "fit_fail" /\ SelectionStep) =>
             sel'.phase \in {"fit_ok", "fit_fail"}]_vars

\* a failed search followed by the highest level, and a response to it
C8_Witness ==
    /\ sel.phase = "fit_fail"
    /\ sel.StimIndex = NumLevels - 1
    /\ Option # ""

\* C9: once the session is in Finished no step changes Total, NumCorrect,
\* choice, lineA_length or lineB_length, selects a level or scores.
C9_FinishedIsTerminal ==
    [][Finished =>
          /\ UNCHANGED <<Total, NumCorrect, choice, lineA_length,
                         lineB_length>>
          /\ ~ScoringStep
          /\ ~SelectionStep]_vars

\* C10: PlotResults runs at most once; it has run exactly when the session
\* is in Finished, and then every presented pair has been scored once.
C10_PlotOnceAtFinished ==
    /\ plots \in {0, 1}
    /\ plots = 1 <=> Finished
    /\ plots = 1 =>
        /\ Len(lineA_length) = Len(choice)
        /\ Sum(Total) = Len(choice)

\* C11: with a participant who answers every pair on display and searches
\* that return, the session reaches Finished, whatever the draws and the
\* search results are.
C11_SessionFinishes == <>Finished

\* the session finished after as many empty presses as the model follows,
\* its last selection made after a failed search
C11_Witness ==
    /\ Finished
    /\ counter > MaxTrials + MaxEmptyPresses
    /\ sel.phase = "fit_fail"

\* C12: when StimLevels lacks the absolute value of one of its levels, the
\* session never comes to a scoring that finds no index for the difference
\* presented and leaves Total as it was.
C12_NoScoringWithoutIndex ==
    [][ScoringStep =>
          stimulus_index(Last(lineA_length), Last(lineB_length)) # {}]_vars

C14_PhaseFollowsCounter ==
    /\ [][SelectionStep =>
             IF counter' * 10 < MinTrials10
             THEN sel'.phase = "warmup"
             ELSE sel'.phase \in {"fit_ok", "fit_fail"}]_vars
    /\ []((SelectionReady /\ counter * 10 < MinTrials10) =>
             LET G == StimIndexChoices(counter, NumCorrect, Total)
             IN /\ \A g \in G : g.phase = "warmup" /\ g.alpha2 = {}
                /\ { g.StimIndex : g \in G } = LevelIndices)
    /\ []((SelectionReady /\ counter * 10 >= MinTrials10) =>
             \A g \in StimIndexChoices(counter, NumCorrect, Total) :
                 g.phase \in {"fit_ok", "fit_fail"})
    /\ [][(SelectionStep /\ sel.phase \in {"fit_ok", "fit_fail"}) =>
             sel'.phase \in {"fit_ok", "fit_fail"}]_vars

\* the first selection at or above MinTrials, made after a successful
\* search; the selection before it was made below MinTrials
C14_Witness ==
    /\ sel.phase = "fit_ok"
    /\ depth = 0
    /\ counter * 10 >= MinTrials10
    /\ (counter - 1) * 10 < MinTrials10
    /\ Len(lineA_length) = counter + 1

\* C15: every presented pair is scored exactly once before the next pair
\* is selected: the responses recorded never outnumber the pairs presented
\* and never fall more than one behind them.
C15_EachPairScoredOnce ==
    /\ Len(choice) <= Len(lineA_length)
    /\ Len(lineA_length) <= Len(choice) + 1

\* C16: the centre of the window of line 154 is the lowest index at which
\* |StimLevels[i] - alpha| is minimal: the index of the level alpha is
\* equal to, the lower index when alpha is midway between two adjacent
\* levels, 0 when alpha is below StimLevels[0] and L-1 when it is above
\* StimLevels[L-1].
C16_NearestTiesToLowestIndex ==
    AdaptiveReady =>
        \A r \in MLE_search(NumCorrect, Total) :
            r.success =>
                LET draws == { g.draw : g \in Adaptive(r) }
                    top == NumLevels - 1
                    Around(c) == (c - 2) .. (c + 2)
                IN /\ \E c \in LevelIndices :
                        /\ draws = Around(c)
                        /\ \A j \in LevelIndices :
                              /\ Diff2(c, r.x0) <= Diff2(j, r.x0)
                              /\ j < c => Diff2(c, r.x0) < Diff2(j, r.x0)
                   /\ \A i \in LevelIndices :
                        r.x0 = 2 * StimLevels[i] => draws = Around(i)
                   /\ \A i \in LevelIndices \ {top} :
                        r.x0 = StimLevels[i] + StimLevels[i + 1] =>
                            draws = Around(i)
                   /\ r.x0 < 2 * StimLevels[0] => draws = Around(0)
                   /\ r.x0 > 2 * StimLevels[top] => draws = Around(top)

\* an adaptive selection is about to run, and the one before it drew the
\* index two above the highest level
C16_Witness ==
    /\ AdaptiveReady
    /\ sel.phase = "fit_ok"
    /\ sel.draw = NumLevels + 1

\* the rest of NextCallback presenting level i as the pair <<a, b>>
PresentPair(i, a, b) ==
    /\ NextCallbackResume
    /\ SelectionStep
    /\ sel'.StimIndex = i
    /\ Last(lineA_length') = a
    /\ Last(lineB_length') = b

\* C17: every presented pair is size_base on one line and size_base plus
\* the level's increment on the other, so |A - B| is the increment, the
\* shorter line is size_base and the increment 0 gives A = B; and at every
\* selection both placements of the increment are possible for every level
\* the selection can arrive at.
C17_IncrementOnOneLine ==
    /\ [](\A k \in 1 .. Len(lineA_length) :
             LET a == lineA_length[k]
                 b == lineB_length[k]
             IN /\ (IF a < b THEN a ELSE b) = size_base
                /\ \E i \in LevelIndices :
                      <<a, b>> \in { <<size_base + StimLevels[i], size_base>>,
                                     <<size_base, size_base + StimLevels[i]>> })
    /\ [][SelectionStep =>
             LET a == Last(lineA_length')
                 b == Last(lineB_length')
                 inc == StimLevels[sel'.StimIndex]
             IN /\ \/ a = size_base + inc /\ b = size_base
                   \/ a = size_base /\ b = size_base + inc
                /\ Abs(a - b) = inc
                /\ (IF a < b THEN a ELSE b) = size_base
                /\ inc = 0 => a = b]_vars
    /\ [](SelectionReady =>
             \A i \in { g.StimIndex :
                           g \in StimIndexChoices(counter, NumCorrect, Total) } :
                 LET inc == StimLevels[i]
                 IN /\ ENABLED PresentPair(i, size_base + inc, size_base)
                    /\ ENABLED PresentPair(i, size_base, size_base + inc))

\* one level presented twice, the increment once on each line
C17_Witness ==
    \E m, n \in 1 .. Len(lineA_length) :
        /\ lineA_length[m] > lineB_length[m]
        /\ lineB_length[n] > lineA_length[n]
        /\ lineA_length[m] - lineB_length[m]
              = lineB_length[n] - lineA_length[n]

\* the rest of NextCallback with a successful search and the level of the
\* pair on display selected again
RepeatSelect ==
    /\ NextCallbackResume
    /\ SelectionStep
    /\ sel'.phase = "fit_ok"
    /\ sel'.StimIndex = sel.StimIndex

C19_CreditedLevelIsSelectedLevel ==
    [][ScoringStep =>
          \A i \in LevelIndices :
              Total'[i] = Total[i] + (IF i = sel.StimIndex THEN 1 ELSE 0)]_vars

\* three pairs scored, of the lowest level, the next one and the highest
C19_Witness ==
    /\ Len(choice) = 3
    /\ Total[0] = 1
    /\ Total[1] = 1
    /\ Total[NumLevels - 1] = 1

\* C20: at every selection that calls the search, at least MinTrials
\* responses have been scored: sum(Total) >= MinTrials.
C20_SearchHasWarmupData ==
    [][(SelectionStep /\ sel'.phase \in {"fit_ok", "fit_fail"}) =>
          Sum(Total') * 10 >= MinTrials10]_vars

====
